---- MODULE Spec2Model ----
(***************************************************************************)
(* MAESTRO scrna-qc: the scRNA-seq cell filter of src/MAESTRO/scRNA_qc.py. *)
(*                                                                         *)
(* Two entry points are modelled.  SpecFC starts at a call of FilterCell   *)
(* with an arbitrary (matrix, feature, barcode) triple; Spec starts at the *)
(* command line of scrna-qc and runs the parser, scrna_qc and FilterCell.  *)
(*                                                                         *)
(* Matrix entries are fixed-point numbers: the integer e stands for the    *)
(* value e / Den, so that fractional counts (and int()'s truncation) are   *)
(* part of the model.  Names are sequences of one-character strings; a     *)
(* text file is a sequence of lines, a line a sequence of tab-separated    *)
(* fields, a field a sequence of characters.                               *)
(***************************************************************************)
EXTENDS Integers, Sequences, FiniteSets, TLC

\* ------------------------------------------------------------- bounds
\* A matrix of the FilterCell specification has at most MaxCells entries.
MaxCells == 4
\* A matrix returned by a loader in the scrna-qc specification has at most
\* LoadCells entries.
LoadCells == 2
\* Denominator of the fixed-point matrix entries.
Den == 2

\* The cutoffs tried are 0..MaxCut.
MaxCut == 1

\* Matrix entries (numerators over Den): 0, 1/Den and 2/Den.
Vals == {0, 1, 2}
Cutoffs == 0..MaxCut

\* ------------------------------------------------------------- names
Name(chars) == [bytes |-> FALSE, s |-> chars]
Bytes(chars) == [bytes |-> TRUE, s |-> chars]

DigitChar(d) ==
    CASE d = 0 -> "0" [] d = 1 -> "1" [] d = 2 -> "2" [] d = 3 -> "3"
      [] d = 4 -> "4" [] d = 5 -> "5" [] d = 6 -> "6" [] d = 7 -> "7"
      [] d = 8 -> "8" [] d = 9 -> "9"

\* str(n) of a non-negative integer: its decimal digits.
RECURSIVE Str(_)
Str(n) == IF n < 10 THEN <<DigitChar(n)>>
          ELSE Str(n \div 10) \o <<DigitChar(n % 10)>>

\* Mutant of IntOf: the value is rounded to the nearest integer.
IntOf_Round(x) == (2 * x + Den) \div (2 * Den)
\* int(j) of a non-negative value j = x / Den: the fractional part is cut.
IntOf(x) == x \div Den

\* ------------------------------------------------------------ matrices
Matrix(r, c) ==
    {[nr |-> r, nc |-> c, v |-> f] : f \in [(1..r) \X (1..c) -> Vals]}

MatricesUpTo(cells) ==
    UNION {UNION {Matrix(r, c) : c \in {k \in 0..cells : r * k <= cells}} :
           r \in 0..cells}

\* rawmatrix.sum(axis=0)[j]: the sum of column j over the rows 1..r.
RECURSIVE ColSum(_, _, _)
ColSum(m, j, r) ==
    IF r = 0 THEN 0 ELSE ColSum(m, j, r - 1) + m.v[<<r, j>>]

\* (rawmatrix > 0).sum(axis=0)[j]: the number of strictly positive entries.
RECURSIVE ColPos(_, _, _)
ColPos(m, j, r) ==
    IF r = 0 THEN 0
    ELSE ColPos(m, j, r - 1) + (IF m.v[<<r, j>>] > 0 THEN 1 ELSE 0)

CountPerCell(m) == [j \in 1..m.nc |-> ColSum(m, j, m.nr)]
GenesPerCell(m) == [j \in 1..m.nc |-> ColPos(m, j, m.nr)]

\* numpy's nonzero() of a boolean sequence: the TRUE positions, ascending.
RECURSIVE NonZero(_)
NonZero(mask) ==
    IF mask = <<>> THEN <<>>
    ELSE LET n == Len(mask)
             rest == NonZero(SubSeq(mask, 1, n - 1))
         IN  IF mask[n] THEN Append(rest, n) ELSE rest

\* Mutant of IxSelect: the selected rows come out in reverse order.
IxSelect_RowsReversed(m, rows, cols) ==
    LET ri == NonZero(rows)
        ci == NonZero(cols)
    IN  [nr |-> Len(ri), nc |-> Len(ci),
         v |-> [p \in (1..Len(ri)) \X (1..Len(ci)) |->
                   m.v[<<ri[Len(ri) + 1 - p[1]], ci[p[2]]>>]]]

\* Mutant of IxSelect: the columns NOT marked come out.
IxSelect_OtherCols(m, rows, cols) ==
    LET ri == NonZero(rows)
        ci == NonZero([k \in 1..Len(cols) |-> ~cols[k]])
    IN  [nr |-> Len(ri), nc |-> Len(ci),
         v |-> [p \in (1..Len(ri)) \X (1..Len(ci)) |-> m.v[<<ri[p[1]], ci[p[2]]>>]]]

\* rawmatrix[np.ix_(rows, cols)] for two boolean lists.
IxSelect(m, rows, cols) ==
    LET ri == NonZero(rows)
        ci == NonZero(cols)
    IN  [nr |-> Len(ri), nc |-> Len(ci),
         v |-> [p \in (1..Len(ri)) \X (1..Len(ci)) |-> m.v[<<ri[p[1]], ci[p[2]]>>]]]

IndexError == "IndexError"

\* np.array(arr)[mask].tolist() for a list of Python booleans: an empty list
\* is an empty integer index, a boolean index must match the array's length.
\* Mutant of BoolIndexRaises: an index that selects nothing is refused too.
BoolIndexRaises_NoneSelected(arr, mask) ==
    \/ mask # <<>> /\ Len(mask) # Len(arr)
    \/ mask # <<>> /\ NonZero(mask) = <<>>

\* Mutant of BoolIndex: the first names are taken, as many as columns pass.
BoolIndex_Head(arr, mask) ==
    LET ci == NonZero(mask) IN [k \in 1..Len(ci) |-> arr[k]]

BoolIndexRaises(arr, mask) == mask # <<>> /\ Len(mask) # Len(arr)
BoolIndex(arr, mask) ==
    LET ci == NonZero(mask) IN [k \in 1..Len(ci) |-> arr[ci[k]]]

\* Mutant of PassedCell: the comparisons are not strict.
PassedCell_NotStrict(counts, genes, cc, gc) ==
    [j \in 1..Len(counts) |-> counts[j] >= cc * Den /\ genes[j] >= gc]

\* count_per_cell > count_cutoff and genes_per_cell > gene_cutoff, per column.
PassedCell(counts, genes, cc, gc) ==
    [j \in 1..Len(counts) |-> counts[j] > cc * Den /\ genes[j] > gc]

\* ------------------------------------------------------ name handling
\* Whether sep occurs in s at position k.
OccursAt(s, sep, k) ==
    /\ k >= 1
    /\ k + Len(sep) - 1 <= Len(s)
    /\ SubSeq(s, k, k + Len(sep) - 1) = sep

\* str.split(sep) for a non-empty separator: the pieces between its
\* occurrences, found left to right.
RECURSIVE Split(_, _)
Split(s, sep) ==
    LET hits == {k \in 1..Len(s) : OccursAt(s, sep, k)}
    IN  IF hits = {} THEN <<s>>
        ELSE LET k == CHOOSE h \in hits : \A g \in hits : h <= g
             IN  <<SubSeq(s, 1, k - 1)>>
                 \o Split(SubSeq(s, k + Len(sep), Len(s)), sep)

Last(seq) == seq[Len(seq)]

IsQuote(ch) == ch = "\"" \/ ch = "'"

\* i[1:(len(i)-1)]
Unquote(n) == [n EXCEPT !.s = SubSeq(@, 2, Len(@) - 1)]

\* names[0][0] raises IndexError for an empty list or an empty first name.
FirstCharRaises(names) == names = <<>> \/ names[1].s = <<>>

\* Lines 96-99: every name loses its first and last character when the
\* FIRST name of the list starts with a quote character.
StripQuotes(names) ==
    IF IsQuote(names[1].s[1])
    THEN [k \in 1..Len(names) |-> Unquote(names[k])]
    ELSE names

GenesResults == <<".", "g", "e", "n", "e", "s", ".", "r", "e", "s", "u", "l", "t", "s">>

\* Line 101: i.split('_')[-1]
PlainFeature(n) == [n EXCEPT !.s = Last(Split(@, <<"_">>))]
\* Line 102: i.split('/')[-1].split('.genes.results')[0]
PlainBarcode(n) == [n EXCEPT !.s = Split(Last(Split(@, <<"/">>)), GenesResults)[1]]

PlainFeatures(names) == [k \in 1..Len(names) |-> PlainFeature(StripQuotes(names)[k])]
PlainBarcodes(names) == [k \in 1..Len(names) |-> PlainBarcode(StripQuotes(names)[k])]

\* Lines 110-113: the names are decoded when the FIRST one is a byte
\* string; str has no decode(), so a text name among them raises.
DecodeRaises(names) ==
    \/ names = <<>>
    \/ names[1].bytes /\ \E k \in 1..Len(names) : ~names[k].bytes
Decode(names) ==
    IF names[1].bytes
    THEN [k \in 1..Len(names) |-> [names[k] EXCEPT !.bytes = FALSE]]
    ELSE names

\* ------------------------------------------------------------- files
CellHdr == <<"C", "e", "l", "l">>
CountHdr == <<"C", "o", "u", "n", "t">>
GeneHdr == <<"G", "e", "n", "e">>
\* header = "Cell\tCount\tGene\n"
Header == <<CellHdr, CountHdr, GeneHdr>>

\* barcode[i] + "\t" + "\t".join([str(int(j)) for j in count_gene[0:2,i]]) + "\n"
\* where count_gene is the float array of both statistics.
StatLine(bc, count, gene) ==
    LET stat_list == <<count, gene * Den>>
    IN  <<bc.s>> \o [k \in 1..2 |-> Str(IntOf(stat_list[k]))]

NoFile == [exists |-> FALSE, text |-> <<>>, h5 |-> <<>>]
TextFile(lines) == [exists |-> TRUE, text |-> lines, h5 |-> <<>>]
H5File(content) == [exists |-> TRUE, text |-> <<>>, h5 |-> <<content>>]

\* What an earlier run may have left under the same prefix.
OldStat == TextFile(<<Header, <<<<"o", "l", "d">>, <<"7">>, <<"7">>>>>>)
OldH5 == H5File([matrix |-> [nr |-> 0, nc |-> 0, v |-> <<>>], features |-> <<>>,
                 barcodes |-> <<>>, genome |-> "old", datatype |-> "Gene"])

StatName == "_count_gene_stat.txt"
H5Name == "_filtered_gene_count.h5"
FileNames == {StatName, H5Name}

\* The state of the path `directory`: absent with a writable parent, absent
\* with a parent that denies creation, a regular file, a directory that
\* denies writing, or a writable directory.
DirStates == {"absent", "denied", "file", "readonly", "dir"}

\* A directory with the files an earlier run left in it.
FsStates ==
    {[dir |-> d, files |-> [f \in FileNames |-> NoFile]] : d \in DirStates}
    \cup {[dir |-> "dir", files |-> (StatName :> OldStat @@ H5Name :> OldH5)]}

\* open(statfile, "w"): the error it raises for a state of the directory,
\* "none" when the file can be created or truncated.
OpenError(d) ==
    CASE d = "dir" -> "none"
      [] d = "readonly" -> "PermissionError"
      [] d = "file" -> "NotADirectoryError"
      [] OTHER -> "FileNotFoundError"

\* --------------------------------------------------------------- state
VARIABLES
    pc,                 \* position in the run
    formatArg,          \* the --format flag as given ("omitted" when absent)
    fileformat,         \* scrna_qc's fileformat argument
    fs,                 \* the output directory and the two files under it
    written,            \* names of the files this run created or truncated
    mkerr,              \* the OSError os.makedirs raised and scrna_qc swallowed:
                        \* "notcalled", "none" (the directory was created) or
                        \* the error
    bound,              \* which of scrna_qc's locals are bound
    loaded,             \* what the loader returned (scrna_qc's input files)
    rawmatrix, feature, barcode, count_cutoff, gene_cutoff, species,
    count_per_cell, genes_per_cell,
    i,                  \* the loop index of the statistics loop
    passed_cell, passed_cell_matrix, passed_barcodes,
    h5call,             \* the arguments write_10X_h5 was called with
    err,                \* the exception that ended the run
    prior               \* what the previous call of FilterCell left, if any

args == <<formatArg, fileformat, count_cutoff, gene_cutoff, species>>
triple == <<rawmatrix, feature, barcode>>
stats == <<count_per_cell, genes_per_cell>>
filtered == <<passed_cell, passed_cell_matrix, passed_barcodes>>
vars == <<pc, fs, written, mkerr, bound, loaded, args, triple, stats, i, filtered,
          h5call, err, prior>>

NoError == [type |-> "none", at |-> "none"]
Raise(type, at) == [type |-> type, at |-> at]
EmptyMatrix == [nr |-> 0, nc |-> 0, v |-> <<>>]
\* No call of FilterCell came before this one.
NoPrior == [mode |-> "none", stat |-> NoFile, mask |-> <<>>, out |-> <<>>]

\* ---------------------------------------------------------- FilterCell
\* Lines 58-61: the per-cell statistics.
FC_Stats ==
    /\ pc = "FilterCell"
    /\ count_per_cell' = CountPerCell(rawmatrix)
    /\ genes_per_cell' = GenesPerCell(rawmatrix)
    /\ pc' = "open"
    /\ UNCHANGED prior
    /\ UNCHANGED <<fs, written, mkerr, bound, loaded, args, triple, i, filtered,
                   h5call, err>>

\* Mutant of FC_Open: the file is opened for appending.
FC_Open_Append ==
    /\ pc = "open"
    /\ IF OpenError(fs.dir) = "none"
       THEN /\ fs' = [fs EXCEPT !.files[StatName] = TextFile(Append(@.text, Header))]
            /\ written' = written \cup {StatName}
            /\ pc' = "rows"
            /\ err' = err
       ELSE /\ err' = Raise(OpenError(fs.dir), "open")
            /\ pc' = "raised"
            /\ UNCHANGED <<fs, written>>
    /\ i' = 0
    /\ UNCHANGED prior
    /\ UNCHANGED <<mkerr, bound, loaded, args, triple, stats, filtered, h5call>>

\* Lines 62-64: open(statfile, "w") and the header line.
FC_Open ==
    /\ pc = "open"
    /\ IF OpenError(fs.dir) = "none"
       THEN /\ fs' = [fs EXCEPT !.files[StatName] = TextFile(<<Header>>)]
            /\ written' = written \cup {StatName}
            /\ pc' = "rows"
            /\ err' = err
       ELSE /\ err' = Raise(OpenError(fs.dir), "open")
            /\ pc' = "raised"
            /\ UNCHANGED <<fs, written>>
    /\ i' = 0
    /\ UNCHANGED prior
    /\ UNCHANGED <<mkerr, bound, loaded, args, triple, stats, filtered, h5call>>

\* Mutant of FC_Row: only the cells that pass the cutoffs are reported.
FC_Row_PassingOnly ==
    /\ pc = "rows"
    /\ i < Len(count_per_cell)
    /\ IF i + 1 > Len(barcode)
       THEN /\ err' = Raise(IndexError, "rows")
            /\ pc' = "raised"
            /\ UNCHANGED <<fs, i>>
       ELSE /\ fs' = IF PassedCell(count_per_cell, genes_per_cell, count_cutoff,
                                   gene_cutoff)[i + 1]
                     THEN [fs EXCEPT !.files[StatName].text =
                              Append(@, StatLine(barcode[i + 1], count_per_cell[i + 1],
                                                 genes_per_cell[i + 1]))]
                     ELSE fs
            /\ i' = i + 1
            /\ UNCHANGED <<pc, err>>
    /\ UNCHANGED prior
    /\ UNCHANGED <<written, mkerr, bound, loaded, args, triple, stats, filtered,
                   h5call>>

\* Lines 65-68: one pass of the loop over the columns of count_gene.
FC_Row ==
    /\ pc = "rows"
    /\ i < Len(count_per_cell)
    /\ IF i + 1 > Len(barcode)
       THEN /\ err' = Raise(IndexError, "rows")
            /\ pc' = "raised"
            /\ UNCHANGED <<fs, i>>
       ELSE IF barcode[i + 1].bytes
       THEN /\ err' = Raise("TypeError", "rows")
            /\ pc' = "raised"
            /\ UNCHANGED <<fs, i>>
       ELSE /\ fs' = [fs EXCEPT !.files[StatName].text =
                         Append(@, StatLine(barcode[i + 1], count_per_cell[i + 1],
                                            genes_per_cell[i + 1]))]
            /\ i' = i + 1
            /\ UNCHANGED <<pc, err>>
    /\ UNCHANGED prior
    /\ UNCHANGED <<written, mkerr, bound, loaded, args, triple, stats, filtered,
                   h5call>>

\* Mutant of FC_Close: the loop is left after its first pass.
FC_Close_Early ==
    /\ pc = "rows"
    /\ i = Len(count_per_cell) \/ i >= 1
    /\ pc' = "filter"
    /\ UNCHANGED prior
    /\ UNCHANGED <<fs, written, mkerr, bound, loaded, args, triple, stats, i,
                   filtered, h5call, err>>

\* Line 68, leaving the with block: the statistics file is closed.
FC_Close ==
    /\ pc = "rows"
    /\ i = Len(count_per_cell)
    /\ pc' = "filter"
    /\ UNCHANGED prior
    /\ UNCHANGED <<fs, written, mkerr, bound, loaded, args, triple, stats, i,
                   filtered, h5call, err>>

\* Lines 70-74: the pass/fail mask, the passing columns and their barcodes.
FC_Filter ==
    /\ pc = "filter"
    /\ LET mask == PassedCell(count_per_cell, genes_per_cell, count_cutoff,
                              gene_cutoff)
           gene == [r \in 1..rawmatrix.nr |-> TRUE]
       IN  /\ passed_cell' = mask
           /\ passed_cell_matrix' = IxSelect(rawmatrix, gene, mask)
           /\ IF BoolIndexRaises(barcode, mask)
              THEN /\ err' = Raise(IndexError, "filter")
                   /\ pc' = "raised"
                   /\ UNCHANGED passed_barcodes
              ELSE /\ passed_barcodes' = BoolIndex(barcode, mask)
                   /\ pc' = "write"
                   /\ UNCHANGED err
    /\ UNCHANGED prior
    /\ UNCHANGED <<fs, written, mkerr, bound, loaded, args, triple, stats, i, h5call>>

\* write_10X_h5(filename, matrix, features, barcodes, genome, datatype): the
\* container it persists.
write_10X_h5(matrix, features, barcodes, genome, datatype) ==
    [matrix |-> matrix, features |-> features, barcodes |-> barcodes,
     genome |-> genome, datatype |-> datatype]

\* Line 77: the call of the container writer, which persists or raises.
FC_Write ==
    /\ pc = "write"
    /\ h5call' = <<write_10X_h5(passed_cell_matrix, feature, passed_barcodes,
                                species, "Gene")>>
    /\ \E ok \in BOOLEAN :
         IF ok
         THEN /\ fs' = [fs EXCEPT !.files[H5Name] = H5File(h5call'[1])]
              /\ written' = written \cup {H5Name}
              /\ pc' = "done"
              /\ UNCHANGED err
         ELSE /\ err' = Raise("WriterError", "write")
              /\ pc' = "raised"
              /\ UNCHANGED <<fs, written>>
    /\ UNCHANGED prior
    /\ UNCHANGED <<mkerr, bound, loaded, args, triple, stats, i, filtered>>

\* ------------------------------------------------- FilterCell called alone
GeneName(k) == Name(<<"g">> \o Str(k))
CellName(k) == Name(<<"c">> \o Str(k))

\* The names of a dense table as upstream quantification tools write them.
TaggedGene(k) == Name(<<"E", "_">> \o GeneName(k).s)
QuotedGene(k) == Name(<<"\"">> \o TaggedGene(k).s \o <<"\"">>)
PathCell(k) == Name(<<"/", "d", "/">> \o CellName(k).s \o GenesResults)
QuotedCell(k) == Name(<<"'">> \o CellName(k).s \o <<"'">>)
BytesGene(k) == Bytes(GeneName(k).s)
BytesCell(k) == Bytes(CellName(k).s)

\* The k-th name of a kind.
NameOf(kind, k) ==
    CASE kind = "gene" -> GeneName(k)
      [] kind = "cell" -> CellName(k)
      [] kind = "tagged gene" -> TaggedGene(k)
      [] kind = "quoted gene" -> QuotedGene(k)
      [] kind = "path cell" -> PathCell(k)
      [] kind = "quoted cell" -> QuotedCell(k)
      [] kind = "bytes gene" -> BytesGene(k)
      [] kind = "bytes cell" -> BytesCell(k)

\* Name lists for a dimension of size n: as long as the dimension, one
\* shorter or one longer.
ListsFor(n, kind) ==
    {[k \in 1..len |-> NameOf(kind, k)] : len \in {l \in {n - 1, n, n + 1} : l >= 0}}

Unset ==
    /\ count_per_cell = <<>> /\ genes_per_cell = <<>>
    /\ i = 0
    /\ passed_cell = <<>> /\ passed_cell_matrix = EmptyMatrix
    /\ passed_barcodes = <<>>
    /\ h5call = <<>>
    /\ written = {}
    /\ err = NoError

\* FilterCell(rawmatrix, feature, barcode, count_cutoff, gene_cutoff,
\* outprefix, species) called with any triple, under any state of the
\* directory that outprefix lies in.
InitFC ==
    /\ pc = "FilterCell"
    /\ formatArg = "mtx" /\ fileformat = "mtx"
    /\ mkerr = "notcalled"
    /\ bound = {"rawmatrix", "features", "barcodes"}
    /\ loaded = <<>>
    /\ fs \in FsStates
    /\ rawmatrix \in MatricesUpTo(MaxCells)
    /\ feature \in ListsFor(rawmatrix.nr, "gene")
    /\ barcode \in ListsFor(rawmatrix.nc, "cell")
    /\ count_cutoff \in Cutoffs
    /\ gene_cutoff \in Cutoffs
    /\ species = "GRCh38"
    /\ Unset
    /\ prior = NoPrior

NextFC == FC_Stats \/ FC_Open \/ FC_Row \/ FC_Close \/ FC_Filter \/ FC_Write

SpecFC == InitFC /\ [][NextFC]_vars

\* -------------------------------------------------- FilterCell called twice
\* Line 57: a new call starts with fresh locals; what the call before it
\* left is remembered.
Recall(mode) ==
    /\ prior' = [mode |-> mode, stat |-> fs.files[StatName], mask |-> passed_cell,
                 out |-> h5call]
    /\ pc' = "FilterCell"
    /\ count_per_cell' = <<>> /\ genes_per_cell' = <<>>
    /\ i' = 0
    /\ passed_cell' = <<>> /\ passed_cell_matrix' = EmptyMatrix
    /\ passed_barcodes' = <<>>
    /\ h5call' = <<>>
    /\ written' = {}
    /\ err' = NoError

\* FilterCell is called again with the inputs and the prefix of the call
\* that has ended, on the files that call left.
RerunSame ==
    /\ pc \in {"done", "raised"}
    /\ prior.mode = "none"
    /\ Recall("same")
    /\ UNCHANGED <<fs, mkerr, bound, loaded, args, triple>>

\* FilterCell is called on the matrix, features and barcodes it has just
\* handed to the writer, with the same cutoffs and prefix.
RerunOutput ==
    /\ pc = "done"
    /\ prior.mode = "none"
    /\ Recall("output")
    /\ rawmatrix' = h5call[1].matrix
    /\ feature' = h5call[1].features
    /\ barcode' = h5call[1].barcodes
    /\ UNCHANGED <<fs, mkerr, bound, loaded, args>>

NextRerun == NextFC \/ RerunSame \/ RerunOutput

SpecRerun == InitFC /\ [][NextRerun]_vars

\* ------------------------------------------------------------ scrna-qc
\* Lines 23-25: --format as the parser takes it.  A value given on the
\* command line must be one of the choices; the default "" is used as is
\* when the flag is absent.
Choices == {"h5", "mtx", "plain"}
FormatArgs == Choices \cup {"omitted", "", "bam"}

Parse ==
    /\ pc = "parse"
    /\ IF formatArg = "omitted"
       THEN fileformat' = "" /\ pc' = "makedirs" /\ UNCHANGED err
       ELSE IF formatArg \in Choices
       THEN fileformat' = formatArg /\ pc' = "makedirs" /\ UNCHANGED err
       ELSE /\ err' = Raise("ArgumentError", "parse")
            /\ pc' = "raised"
            /\ UNCHANGED fileformat
    /\ UNCHANGED prior
    /\ UNCHANGED <<formatArg, count_cutoff, gene_cutoff, species, fs, written, mkerr,
                   bound, loaded, triple, stats, i, filtered, h5call>>

\* os.makedirs(directory): what it raises for a state of the path.
MakedirsError(d) ==
    CASE d = "absent" -> "none"
      [] d = "denied" -> "PermissionError"
      [] OTHER -> "FileExistsError"

\* Mutant of Makedirs: the OSError is not swallowed.
Makedirs_Raises ==
    /\ pc = "makedirs"
    /\ mkerr' = MakedirsError(fs.dir)
    /\ fs' = IF MakedirsError(fs.dir) = "none" THEN [fs EXCEPT !.dir = "dir"] ELSE fs
    /\ IF MakedirsError(fs.dir) = "none"
       THEN pc' = "load" /\ UNCHANGED err
       ELSE pc' = "raised" /\ err' = Raise(MakedirsError(fs.dir), "makedirs")
    /\ UNCHANGED prior
    /\ UNCHANGED <<written, bound, loaded, args, triple, stats, i, filtered, h5call>>

\* Mutant of Makedirs: the directory is not created.
Makedirs_NoCreate ==
    /\ pc = "makedirs"
    /\ mkerr' = MakedirsError(fs.dir)
    /\ pc' = "load"
    /\ UNCHANGED prior
    /\ UNCHANGED <<fs, written, bound, loaded, args, triple, stats, i, filtered,
                   h5call, err>>

\* Lines 82-87: os.makedirs(directory) with every OSError swallowed.
Makedirs ==
    /\ pc = "makedirs"
    /\ mkerr' = MakedirsError(fs.dir)
    /\ fs' = IF MakedirsError(fs.dir) = "none" THEN [fs EXCEPT !.dir = "dir"] ELSE fs
    /\ pc' = "load"
    /\ UNCHANGED prior
    /\ UNCHANGED <<written, bound, loaded, args, triple, stats, i, filtered, h5call,
                   err>>

\* What a reader may return: a matrix and two name lists of the given
\* kinds, each as long as its dimension, one shorter or one longer.
Loaded(feat, cell) ==
    {[matrix |-> m, features |-> f, barcodes |-> b] :
        m \in MatricesUpTo(LoadCells),
        f \in UNION {ListsFor(r, feat) : r \in 0..LoadCells},
        b \in UNION {ListsFor(c, cell) : c \in 0..LoadCells}}

WellSized(t) ==
    /\ Len(t.features) \in {t.matrix.nr - 1, t.matrix.nr, t.matrix.nr + 1}
    /\ Len(t.barcodes) \in {t.matrix.nc - 1, t.matrix.nc, t.matrix.nc + 1}

PlainInputs ==
    Loaded("gene", "cell") \cup Loaded("tagged gene", "path cell")
    \cup Loaded("quoted gene", "quoted cell")
H5Inputs ==
    Loaded("gene", "cell") \cup Loaded("bytes gene", "bytes cell")
    \cup Loaded("bytes gene", "cell")
MtxInputs == Loaded("gene", "cell")

LoadFails(at) ==
    /\ err' = Raise("IOError", at)
    /\ pc' = "raised"
    /\ UNCHANGED prior
    /\ UNCHANGED <<bound, loaded, triple>>

\* Lines 91-102: what the plain branch does with the table t it has read.
PlainBranch(t) ==
    /\ loaded' = <<t>>
    /\ IF FirstCharRaises(t.features) \/ FirstCharRaises(t.barcodes)
       THEN /\ err' = Raise(IndexError, "load")
            /\ pc' = "raised"
            /\ UNCHANGED <<bound, triple>>
       ELSE /\ rawmatrix' = t.matrix
            /\ feature' = PlainFeatures(t.features)
            /\ barcode' = PlainBarcodes(t.barcodes)
            /\ bound' = {"rawmatrix", "features", "barcodes"}
            /\ pc' = "call"
            /\ UNCHANGED err

\* Lines 89-102: the dense plain-text table.
LoadPlain ==
    /\ pc = "load" /\ fileformat = "plain"
    /\ \/ LoadFails("read_count")
       \/ \E t \in {x \in PlainInputs : WellSized(x)} : PlainBranch(t)
    /\ UNCHANGED prior
    /\ UNCHANGED <<fs, written, mkerr, args, stats, i, filtered, h5call>>

\* Lines 110-111 (and 112-113): what the test of names[0] and the decoding
\* raise for one list: IndexError on an empty list, AttributeError when the
\* first name is a byte string and a later one is text, else nothing.
H5NamesError(names) ==
    IF names = <<>> THEN IndexError
    ELSE IF DecodeRaises(names) THEN "AttributeError"
    ELSE "none"

\* The features are handled before the barcodes.
H5Error(t) ==
    IF H5NamesError(t.features) # "none"
    THEN H5NamesError(t.features)
    ELSE H5NamesError(t.barcodes)

\* Lines 106-113: what the h5 branch does with the container t it has read.
H5Branch(t) ==
    /\ loaded' = <<t>>
    /\ IF H5Error(t) # "none"
       THEN /\ err' = Raise(H5Error(t), "load")
            /\ pc' = "raised"
            /\ UNCHANGED <<bound, triple>>
       ELSE /\ rawmatrix' = t.matrix
            /\ feature' = Decode(t.features)
            /\ barcode' = Decode(t.barcodes)
            /\ bound' = {"rawmatrix", "features", "barcodes"}
            /\ pc' = "call"
            /\ UNCHANGED err

\* Lines 104-113: the 10x container.
LoadH5 ==
    /\ pc = "load" /\ fileformat = "h5"
    /\ \/ LoadFails("read_10X_h5")
       \/ \E t \in {x \in H5Inputs : WellSized(x)} : H5Branch(t)
    /\ UNCHANGED prior
    /\ UNCHANGED <<fs, written, mkerr, args, stats, i, filtered, h5call>>

\* Lines 115-119: the sparse triplet with its side files.
LoadMtx ==
    /\ pc = "load" /\ fileformat = "mtx"
    /\ \/ LoadFails("read_10X_mtx")
       \/ \E t \in {x \in MtxInputs : WellSized(x)} :
            /\ loaded' = <<t>>
            /\ rawmatrix' = t.matrix
            /\ feature' = t.features
            /\ barcode' = t.barcodes
            /\ bound' = {"rawmatrix", "features", "barcodes"}
            /\ pc' = "call"
            /\ UNCHANGED err
    /\ UNCHANGED prior
    /\ UNCHANGED <<fs, written, mkerr, args, stats, i, filtered, h5call>>

\* Lines 89, 104, 115: no branch of the if/elif chain is taken.
LoadNothing ==
    /\ pc = "load" /\ fileformat \notin {"plain", "h5", "mtx"}
    /\ pc' = "call"
    /\ UNCHANGED prior
    /\ UNCHANGED <<fs, written, mkerr, bound, loaded, args, triple, stats, i,
                   filtered, h5call, err>>

\* Lines 121-123: the call of FilterCell, whose arguments are read first.
Call ==
    /\ pc = "call"
    /\ IF "rawmatrix" \in bound
       THEN pc' = "FilterCell" /\ UNCHANGED err
       ELSE pc' = "raised" /\ err' = Raise("UnboundLocalError", "call")
    /\ UNCHANGED prior
    /\ UNCHANGED <<fs, written, mkerr, bound, loaded, args, triple, stats, i,
                   filtered, h5call>>

Species == {"GRCh38", "GRCm38"}

\* The command line of scrna-qc, under any state of the output directory.
Init ==
    /\ pc = "parse"
    /\ formatArg \in FormatArgs
    /\ fileformat = ""
    /\ mkerr = "notcalled"
    /\ bound = {}
    /\ loaded = <<>>
    /\ fs \in FsStates
    /\ rawmatrix = EmptyMatrix /\ feature = <<>> /\ barcode = <<>>
    /\ count_cutoff \in Cutoffs
    /\ gene_cutoff \in Cutoffs
    /\ species \in Species
    /\ Unset
    /\ prior = NoPrior

Next ==
    \/ Parse \/ Makedirs
    \/ LoadPlain \/ LoadH5 \/ LoadMtx \/ LoadNothing
    \/ Call
    \/ FC_Stats \/ FC_Open \/ FC_Row \/ FC_Close \/ FC_Filter \/ FC_Write

Spec == Init /\ [][Next]_vars

\* ------------------------------------------------- the name handling
\* The two branches that rewrite names, applied to names of every shape.

\* A name is made of at most MaxTokens of these pieces.
MaxTokens == 2
\* A name list has at most MaxNames names.
MaxNames == 2

Tokens == {<<"a">>, <<"_">>, <<"/">>, GenesResults}
QuoteChars == {"\"", "'"}

RECURSIVE Texts(_)
Texts(n) ==
    IF n = 0 THEN {<<>>}
    ELSE Texts(n - 1) \cup {x \o t : x \in Texts(n - 1), t \in Tokens}

\* Each text bare, with a quote character in front, behind, or both.
Wrapped(S) ==
    S \cup {<<q>> \o x : q \in QuoteChars, x \in S}
      \cup {x \o <<q>> : q \in QuoteChars, x \in S}
      \cup {<<q>> \o x \o <<q>> : q \in QuoteChars, x \in S}

\* The names a plain-text table may carry, and those tried after the
\* first name of a list.
PlainNames == {Name(x) : x \in Wrapped(Texts(MaxTokens))}
PlainFollowers == {Name(x) : x \in Wrapped(Texts(1))}
\* The names a container may carry: text or byte strings.
H5Names == {Name(<<"a">>), Name(<<"b">>), Bytes(<<"a">>), Bytes(<<"b">>)}

\* The lists tried: a first name from S, then copies of a name from F.
NameLists(S, F) ==
    {<<>>} \cup {[k \in 1..n |-> IF k = 1 THEN x ELSE y] :
                    n \in 1..MaxNames, x \in S, y \in F}

ZeroMatrix(r, c) == [nr |-> r, nc |-> c, v |-> [x \in (1..r) \X (1..c) |-> 0]]

\* A table whose feature names are the list l, with one ordinary barcode.
FeatureTable(l) ==
    [matrix |-> ZeroMatrix(Len(l), 1), features |-> l, barcodes |-> <<CellName(1)>>]
\* A table whose barcodes are the list l, with one ordinary feature name.
BarcodeTable(l) ==
    [matrix |-> ZeroMatrix(1, Len(l)), features |-> <<GeneName(1)>>, barcodes |-> l]

ReadPlain ==
    /\ pc = "load" /\ fileformat = "plain"
    /\ \E l \in NameLists(PlainNames, PlainFollowers) :
          PlainBranch(FeatureTable(l)) \/ PlainBranch(BarcodeTable(l))
    /\ UNCHANGED prior
    /\ UNCHANGED <<fs, written, mkerr, args, stats, i, filtered, h5call>>

ReadH5 ==
    /\ pc = "load" /\ fileformat = "h5"
    /\ \E l \in NameLists(H5Names, H5Names) :
          H5Branch(FeatureTable(l)) \/ H5Branch(BarcodeTable(l))
    /\ UNCHANGED prior
    /\ UNCHANGED <<fs, written, mkerr, args, stats, i, filtered, h5call>>

\* scrna_qc after os.makedirs found the directory in place.
InitNames ==
    /\ pc = "load"
    /\ formatArg \in {"plain", "h5"}
    /\ fileformat = formatArg
    /\ mkerr = "FileExistsError"
    /\ bound = {}
    /\ loaded = <<>>
    /\ fs = [dir |-> "dir", files |-> [f \in FileNames |-> NoFile]]
    /\ rawmatrix = EmptyMatrix /\ feature = <<>> /\ barcode = <<>>
    /\ count_cutoff = 0
    /\ gene_cutoff = 0
    /\ species = "GRCh38"
    /\ Unset
    /\ prior = NoPrior

NextNames == ReadPlain \/ ReadH5

SpecNames == InitNames /\ [][NextNames]_vars

\* ============================================================== claims
\* The vocabulary of the claims, stated on the input matrix directly.

\* The total count of column c: the sum of its entries.
RECURSIVE SumFrom(_, _, _)
SumFrom(m, c, r) ==
    IF r > m.nr THEN 0 ELSE m.v[<<r, c>>] + SumFrom(m, c, r + 1)
TotalCount(m, c) == SumFrom(m, c, 1)

\* The feature count of column c: how many of its entries are positive.
FeatureCount(m, c) == Cardinality({r \in 1..m.nr : m.v[<<r, c>>] > 0})

\* Column c passes: both statistics are strictly above their cutoffs.
Passes(c) ==
    /\ TotalCount(rawmatrix, c) > count_cutoff * Den
    /\ FeatureCount(rawmatrix, c) > gene_cutoff

\* The passing columns among the first n, in original order.
RECURSIVE Kept(_)
Kept(n) ==
    IF n = 0 THEN <<>>
    ELSE IF Passes(n) THEN Append(Kept(n - 1), n) ELSE Kept(n - 1)

Cols == 1..rawmatrix.nc
Rows == 1..rawmatrix.nr
Ended == pc \in {"done", "raised"}
\* The statistics file has been written and closed.
ReportClosed ==
    \/ pc \in {"filter", "write", "done"}
    \/ pc = "raised" /\ err.at \in {"filter", "write"}
\* Lines 70-72 have run: the mask and the filtered matrix exist.
MaskComputed ==
    \/ pc \in {"write", "done"}
    \/ pc = "raised" /\ err.at \in {"filter", "write"}
\* Lines 70-74 have run without raising.
FilterDone ==
    \/ pc \in {"write", "done"}
    \/ pc = "raised" /\ err.at = "write"
StatText == fs.files[StatName].text
\* The report is the header line followed by one row per column.
ReportComplete ==
    /\ fs.files[StatName].exists
    /\ Len(StatText) = rawmatrix.nc + 1
    /\ StatText[1] = Header

\* C1: a column is retained in the filtered matrix if and only if its total
\* count is strictly greater than count_cutoff and its feature count is
\* strictly greater than gene_cutoff: the mask says so for every column and
\* the filtered matrix holds exactly the passing columns.
C1_StrictCutoffs ==
    MaskComputed =>
        /\ \A c \in Cols : passed_cell[c] <=> Passes(c)
        /\ passed_cell_matrix.nc = Len(Kept(rawmatrix.nc))
        /\ \A k \in 1..passed_cell_matrix.nc : \A r \in 1..passed_cell_matrix.nr :
              passed_cell_matrix.v[<<r, k>>] = rawmatrix.v[<<r, Kept(rawmatrix.nc)[k]>>]

\* A finished run with a retained column beside a column that is excluded
\* only because its total equals count_cutoff.
C1_Witness ==
    /\ pc = "done"
    /\ count_cutoff >= 1
    /\ \E c \in Cols : passed_cell[c]
    /\ \E c \in Cols :
          /\ TotalCount(rawmatrix, c) = count_cutoff * Den
          /\ FeatureCount(rawmatrix, c) > gene_cutoff
          /\ ~passed_cell[c]

\* C2: once the report is closed it is the header followed by exactly n data
\* rows, row i naming barcode[i], for every cell whether it passes or not and
\* for every cutoffs; and a run whose statistics file could be opened and
\* whose barcode list covers the columns does write the whole report.
C2_ReportAllCells ==
    /\ ReportClosed =>
          /\ ReportComplete
          /\ \A c \in Cols : StatText[c + 1][1] = barcode[c].s
    /\ (Ended /\ OpenError(fs.dir) = "none" /\ Len(barcode) >= rawmatrix.nc)
          => ReportClosed

\* A closed report that lists a failing cell next to a passing one.
C2_Witness ==
    /\ pc = "done"
    /\ Len(StatText) = 3
    /\ \E c \in Cols : Passes(c)
    /\ \E c \in Cols : ~Passes(c) /\ StatText[c + 1][1] = barcode[c].s

\* C3: the filtered matrix has the rows of the input matrix, in the same
\* order (entry (r, k) of the filtered matrix is entry r of the k-th passing
\* column), and the container writer is handed the feature list it was given.
C3_RowsUnchanged ==
    /\ MaskComputed =>
          /\ passed_cell_matrix.nr = rawmatrix.nr
          /\ \A k \in 1..passed_cell_matrix.nc : \A r \in Rows :
                passed_cell_matrix.v[<<r, k>>] = rawmatrix.v[<<r, Kept(rawmatrix.nc)[k]>>]
    /\ h5call # <<>> =>
          /\ h5call[1].features = feature
          /\ h5call[1].features = [k \in 1..Len(feature) |-> GeneName(k)]
          /\ h5call[1].matrix.nr = rawmatrix.nr

\* The writer was called with a matrix that lost a column and kept two rows
\* that differ in the retained column.
C3_Witness ==
    /\ h5call # <<>>
    /\ rawmatrix.nr = 2
    /\ h5call[1].matrix.nc = 1 /\ rawmatrix.nc = 2
    /\ h5call[1].matrix.v[<<1, 1>>] # h5call[1].matrix.v[<<2, 1>>]

\* C4: the filtered barcode list is the input barcode list at the passing
\* positions, in original order: as long as the filtered matrix has columns,
\* with filtered barcode k naming the input column that filtered column k is.
C4_BarcodesAligned ==
    FilterDone =>
        /\ Len(passed_barcodes) = passed_cell_matrix.nc
        /\ Len(passed_barcodes) = Len(Kept(rawmatrix.nc))
        /\ \A k \in 1..Len(passed_barcodes) :
              /\ passed_barcodes[k] = barcode[Kept(rawmatrix.nc)[k]]
              /\ \A r \in Rows :
                    passed_cell_matrix.v[<<r, k>>] = rawmatrix.v[<<r, Kept(rawmatrix.nc)[k]>>]

\* The first column fails and a later one passes, so that the filtered
\* barcode list does not start with the first input barcode.
C4_Witness ==
    /\ pc = "done"
    /\ rawmatrix.nc >= 2
    /\ ~Passes(1)
    /\ passed_barcodes # <<>> /\ passed_barcodes[1] # barcode[1]

\* C5: when every cell fails the cutoffs and the name lists fit the matrix,
\* FilterCell raises nothing of its own: the container writer is invoked with
\* a matrix of zero columns and all rows, an empty barcode list and the
\* unchanged feature list, and the report has one row per input cell.
C5_AllCellsFail ==
    (/\ Ended
     /\ OpenError(fs.dir) = "none"
     /\ Len(barcode) = rawmatrix.nc
     /\ \A c \in Cols : ~Passes(c))
        => /\ h5call # <<>>
           /\ h5call[1].matrix.nc = 0
           /\ h5call[1].matrix.nr = rawmatrix.nr
           /\ h5call[1].barcodes = <<>>
           /\ h5call[1].features = feature
           /\ ReportComplete
           /\ err.at \in {"none", "write"}

\* A finished run over a matrix with rows and columns none of which passes.
C5_Witness ==
    /\ pc = "done"
    /\ rawmatrix.nc >= 2 /\ rawmatrix.nr >= 1
    /\ \A c \in Cols : ~Passes(c)
    /\ fs.files[H5Name].h5[1].matrix.nc = 0

\* The name lists do not fit the matrix.
Malformed == Len(feature) # rawmatrix.nr \/ Len(barcode) # rawmatrix.nc

\* C7 (as claimed): a triple whose feature list or barcode list does not fit
\* the matrix ends the run with a FormatError before any file is written.
C7_MalformedRejected ==
    Malformed =>
        /\ written = {}
        /\ Ended => pc = "raised" /\ err.type = "FormatError"

\* C10: the report is complete and closed before the mask is computed and
\* before the writer is called; a run that failed while filtering or writing
\* the container leaves the complete report and no container, and the
\* container is never written without the complete report.
C10_ReportBeforeFilter ==
    /\ MaskComputed => ReportComplete
    /\ h5call # <<>> => ReportComplete
    /\ (pc = "raised" /\ err.at \in {"filter", "write"})
          => ReportComplete /\ H5Name \notin written
    /\ H5Name \in written => ReportComplete /\ StatName \in written
    /\ pc \in {"FilterCell", "open", "rows"}
          => passed_cell = <<>> /\ h5call = <<>> /\ H5Name \notin written

\* The container writer failed: the report of a matrix with columns is there
\* and the container is not.
C10_Witness ==
    /\ pc = "raised" /\ err.at = "write"
    /\ rawmatrix.nc >= 2
    /\ ReportComplete
    /\ H5Name \notin written

\* ------------------------------------------------ claims about scrna_qc
\* os.makedirs failed for a reason other than the directory existing.
MkFailed ==
    \/ mkerr = "PermissionError"
    \/ mkerr = "FileExistsError" /\ fs.dir = "file"

LoadSites == {"read_count", "read_10X_h5", "read_10X_mtx", "load", "call"}

\* C6 (as claimed): a format tag outside plain, h5 and mtx, the empty
\* default included, is rejected at parse time: the run goes no further
\* than the parser, no directory is created, nothing is read or written.
C6_RejectedAtParse ==
    formatArg \notin Choices =>
        /\ mkerr # "none"
        /\ loaded = <<>>
        /\ written = {}
        /\ Ended => err.at = "parse"

\* C8 (as claimed): when os.makedirs fails for a reason other than the
\* directory existing, the run ends there with that error and nothing is
\* loaded.
C8_MkdirErrorSurfaces ==
    MkFailed =>
        /\ pc = "raised"
        /\ err = Raise(mkerr, "makedirs")
        /\ loaded = <<>>

\* C8 (amended): the error of os.makedirs is swallowed and never reaches the
\* caller; the run goes on to the load step and ends with a later step's
\* error: the load step's or, when a triple was loaded, the error of opening
\* the statistics file; no output file is written.
C8_MkdirErrorSwallowed ==
    MkFailed =>
        /\ pc \in {"load", "call", "FilterCell", "open", "raised"}
        /\ err.at # "makedirs"
        /\ written = {}
        /\ Ended =>
              \/ err.at \in LoadSites
              \/ /\ err.at = "open"
                 /\ err.type = OpenError(fs.dir)
                 /\ loaded # <<>>

\* os.makedirs was denied, the triple was loaded all the same and the run
\* ended where the statistics file is opened.
C8_Witness ==
    /\ mkerr = "PermissionError"
    /\ pc = "raised" /\ err.at = "open"
    /\ loaded # <<>> /\ count_per_cell # <<>>

AfterLast(s, ch) ==
    LET at == {k \in 1..Len(s) : s[k] = ch}
    IN  IF at = {} THEN s
        ELSE SubSeq(s, (CHOOSE k \in at : \A l \in at : l <= k) + 1, Len(s))

\* s without suf when s ends with suf; else s.
WithoutSuffix(s, suf) ==
    IF Len(s) >= Len(suf) /\ SubSeq(s, Len(s) - Len(suf) + 1, Len(s)) = suf
    THEN SubSeq(s, 1, Len(s) - Len(suf))
    ELSE s

\* The plain branch has handed its names on.
PlainLoaded == fileformat = "plain" /\ pc = "call" /\ loaded # <<>>

\* The feature half of C11: the name after its last underscore.
FeaturesAfterUnderscore ==
    PlainLoaded =>
        \A k \in 1..Len(feature) :
            feature[k].s = AfterLast(StripQuotes(loaded[1].features)[k].s, "_")

\* C11: in the plain format every feature name is reduced to what follows
\* its last underscore, and every barcode to what follows its last '/'
\* with a trailing ".genes.results" removed and nothing else: an occurrence
\* of ".genes.results" that is not the trailing suffix stays in the barcode.
C11_OnlyTrailingSuffixRemoved ==
    PlainLoaded =>
        /\ FeaturesAfterUnderscore
        /\ \A k \in 1..Len(barcode) :
              barcode[k].s =
                WithoutSuffix(AfterLast(StripQuotes(loaded[1].barcodes)[k].s, "/"),
                              GenesResults)

\* A name that carries a leading and a trailing quote character.
Quoted(s) == Len(s) >= 2 /\ IsQuote(s[1]) /\ IsQuote(s[Len(s)])
\* A name that carries neither.
Bare(s) == s = <<>> \/ (~IsQuote(s[1]) /\ ~IsQuote(s[Len(s)]))
Inner(s) == SubSeq(s, 2, Len(s) - 1)
NotQuote(ch) == ~IsQuote(ch)
\* The characters of s that are not quote characters, in order.
NonQuotes(s) == SelectSeq(s, NotQuote)

\* What C12 says of one raw name, the name the quote step made of it and
\* the name handed on, whose reduction is the one of lines 101-102.
QuoteStepRight(raw, stripped, final, feat) ==
    /\ Quoted(raw.s) =>
          final = IF feat THEN PlainFeature(Name(Inner(raw.s)))
                          ELSE PlainBarcode(Name(Inner(raw.s)))
    /\ Bare(raw.s) =>
          final = IF feat THEN PlainFeature(raw) ELSE PlainBarcode(raw)
    /\ NonQuotes(stripped.s) = NonQuotes(raw.s)

\* C12: in the plain format every name with a leading and a trailing quote
\* has them stripped and every name without them is left as it is,
\* whether or not the first name of the list is quoted, and the quote
\* step removes no character that is not a quote.
C12_QuotesStrippedPerName ==
    PlainLoaded =>
        /\ \A k \in 1..Len(feature) :
              QuoteStepRight(loaded[1].features[k],
                             StripQuotes(loaded[1].features)[k], feature[k], TRUE)
        /\ \A k \in 1..Len(barcode) :
              QuoteStepRight(loaded[1].barcodes[k],
                             StripQuotes(loaded[1].barcodes)[k], barcode[k], FALSE)

\* The h5 branch has read a container.
H5Read == fileformat = "h5" /\ loaded # <<>>

\* C13: in the h5 format, whatever the two name arrays hold (text, byte
\* strings, a mixture of both, or nothing), the load step does not raise
\* and every name handed to FilterCell is decoded text, never bytes.
C13_AlwaysDecodedText ==
    H5Read =>
        /\ pc = "call"
        /\ Len(feature) = Len(loaded[1].features)
        /\ Len(barcode) = Len(loaded[1].barcodes)
        /\ \A k \in 1..Len(feature) :
              feature[k] = Name(loaded[1].features[k].s)
        /\ \A k \in 1..Len(barcode) :
              barcode[k] = Name(loaded[1].barcodes[k].s)

\* What does hold: arrays that are non-empty and all text, or all bytes,
\* are handed on as text.
UniformNamesDecoded ==
    (/\ H5Read
     /\ \A l \in {loaded[1].features, loaded[1].barcodes} :
           l # <<>> /\ \A k \in 1..Len(l) : l[k].bytes = l[1].bytes)
    => (/\ pc = "call"
        /\ \A k \in 1..Len(feature) : feature[k] = Name(loaded[1].features[k].s)
        /\ \A k \in 1..Len(barcode) : barcode[k] = Name(loaded[1].barcodes[k].s))

\* ------------------------------------------- claims on repeated calls
\* The report of a matrix and its barcodes: the header, then one line per
\* column.
ReportOf(m, bc) ==
    <<Header>> \o [c \in 1..m.nc |->
                     StatLine(bc[c], TotalCount(m, c), FeatureCount(m, c))]

\* C14: calling FilterCell again with the same inputs and the same prefix
\* leaves a report identical to the one the first call left: the file is
\* overwritten, not appended to, and a closed report is determined by the
\* inputs alone, whatever the file held before.
C14_ReportOverwritten ==
    /\ (prior.mode = "same" /\ Ended) => fs.files[StatName] = prior.stat
    /\ ReportClosed => fs.files[StatName] = TextFile(ReportOf(rawmatrix, barcode))

\* A second call with the same inputs has ended, over a report with rows
\* that the first call left.
C14_Witness ==
    /\ prior.mode = "same"
    /\ pc = "done"
    /\ prior.stat.exists
    /\ Len(prior.stat.text) >= 3
    /\ fs.files[StatName] = prior.stat

\* --------------------------------------------- claims on the report rows
Digits == {DigitChar(d) : d \in 0..9}
\* A field is an integer in decimal: digits only, no leading zero.
IsDecimal(s) ==
    /\ Len(s) >= 1
    /\ \A k \in 1..Len(s) : s[k] \in Digits
    /\ Len(s) > 1 => s[1] # "0"
\* The number a decimal field denotes.
RECURSIVE DecValue(_)
DecValue(s) ==
    IF s = <<>> THEN 0
    ELSE DecValue(SubSeq(s, 1, Len(s) - 1)) * 10
         + (CHOOSE d \in 0..9 : DigitChar(d) = s[Len(s)])

\* The rows of the report this call has written so far.
RowsWritten == IF StatName \in written THEN 1..(Len(StatText) - 1) ELSE {}

\* C15: data row c of the report is (barcode of column c, Count, Gene) in
\* that order, Count being the sum of column c and Gene the number of its
\* strictly positive entries, each written as an integer with the fraction
\* cut off; and these are the two per-cell values that the pass/fail test
\* compares with the cutoffs.
C15_RowStatistics ==
    /\ \A c \in RowsWritten :
          /\ Len(StatText[c + 1]) = 3
          /\ StatText[c + 1][1] = barcode[c].s
          /\ IsDecimal(StatText[c + 1][2]) /\ IsDecimal(StatText[c + 1][3])
          /\ DecValue(StatText[c + 1][2]) * Den <= TotalCount(rawmatrix, c)
          /\ TotalCount(rawmatrix, c) < (DecValue(StatText[c + 1][2]) + 1) * Den
          /\ DecValue(StatText[c + 1][3]) = FeatureCount(rawmatrix, c)
    /\ pc # "FilterCell" =>
          \A c \in Cols :
              /\ count_per_cell[c] = TotalCount(rawmatrix, c)
              /\ genes_per_cell[c] = FeatureCount(rawmatrix, c)
    /\ MaskComputed =>
          \A c \in Cols :
              passed_cell[c] <=> /\ count_per_cell[c] > count_cutoff * Den
                                 /\ genes_per_cell[c] > gene_cutoff

\* A finished run with a column whose total has a fraction: the report
\* shows the total cut down to the cutoff, and the column passes because
\* the test compares the total itself.
C15_Witness ==
    /\ pc = "done"
    /\ \E c \in Cols :
          /\ TotalCount(rawmatrix, c) % Den # 0
          /\ DecValue(StatText[c + 1][2]) = count_cutoff
          /\ count_cutoff >= 1
          /\ passed_cell[c]

\* The lines of a report at the positions a mask marks, in order; line
\* k + 1 of the report is the row of column k.
RECURSIVE RowsAt(_, _)
RowsAt(text, mask) ==
    IF mask = <<>> THEN <<>>
    ELSE LET n == Len(mask)
             rest == RowsAt(text, SubSeq(mask, 1, n - 1))
         IN  IF mask[n] THEN Append(rest, text[n + 1]) ELSE rest

\* FilterCell runs on what its previous call handed to the writer.
SecondPass == prior.mode = "output"

\* C16: FilterCell applied to the matrix, features and barcodes it has
\* produced, with the same cutoffs, retains every column: it yields the
\* same filtered matrix and barcode list, hands the writer the same
\* content, and its report is the rows of the first report for the
\* passing cells, in the same order.
C16_FilterIdempotent ==
    /\ (SecondPass /\ MaskComputed) =>
          /\ \A c \in Cols : passed_cell[c]
          /\ passed_cell_matrix = rawmatrix
          /\ passed_cell_matrix = prior.out[1].matrix
    /\ (SecondPass /\ FilterDone) =>
          /\ passed_barcodes = barcode
          /\ passed_barcodes = prior.out[1].barcodes
    /\ (SecondPass /\ h5call # <<>>) => h5call = prior.out
    /\ (SecondPass /\ Ended) =>
          /\ ReportClosed
          /\ StatText = <<Header>> \o RowsAt(prior.stat.text, prior.mask)

\* A second pass has ended on the output of a first pass that had
\* excluded a column and retained another.
C16_Witness ==
    /\ SecondPass
    /\ pc = "done"
    /\ \E c \in 1..Len(prior.mask) : ~prior.mask[c]
    /\ rawmatrix.nc >= 1
    /\ Len(StatText) = rawmatrix.nc + 1

====
